---- MODULE Spec2Model ----
(***************************************************************************)
(* Model of the Mergington High School activities API (src/src/app.py):    *)
(* the in-memory registry `activities` and the HTTP operations on it.      *)
(*                                                                         *)
(*   Spec      every request is handled from start to end before the next  *)
(*             one starts (one client, as in tests/test_app.py).           *)
(*   SpecCap   the same handlers, driven by a client that enrols a roll of *)
(*             new students into Chess Club one after the other.           *)
(*   SpecConc  signup_for_activity run by several worker threads, one      *)
(*             source statement per step.                                  *)
(***************************************************************************)
EXTENDS Integers, Sequences, FiniteSets

VARIABLES
    activities,   \* the registry: activity name -> record
    request,      \* the request served last
    response,     \* the response given to it
    before,       \* the registry as it was when that request arrived
    pc,           \* SpecConc: each worker thread's position in the handler
    req,          \* SpecConc: each worker thread's (activity_name, email)
    resp,         \* SpecConc: each worker thread's last response
    raced         \* SpecConc: pairs of threads that both passed the
                  \* membership check before either of them appended

vars == <<activities, request, response, before, pc, req, resp, raced>>

seqVars == <<activities, request, response, before>>
concVars == <<pc, req, resp, raced>>

(***************************************************************************)
(* The seeded registry, app.py lines 23-78.                                *)
(***************************************************************************)
Activity(d, s, m, p) ==
    [description |-> d, schedule |-> s, max_participants |-> m, participants |-> p]

SeedActivities ==
    [n \in {"Chess Club", "Programming Class", "Gym Class", "Soccer Team",
            "Basketball Club", "Art Club", "Drama Club", "Debate Team",
            "Science Club"} |->
       CASE n = "Chess Club" ->
              Activity("Learn strategies and compete in chess tournaments",
                       "Fridays, 3:30 PM - 5:00 PM", 12,
                       <<"michael@mergington.edu", "daniel@mergington.edu">>)
         [] n = "Programming Class" ->
              Activity("Learn programming fundamentals and build software projects",
                       "Tuesdays and Thursdays, 3:30 PM - 4:30 PM", 20,
                       <<"emma@mergington.edu", "sophia@mergington.edu">>)
         [] n = "Gym Class" ->
              Activity("Physical education and sports activities",
                       "Mondays, Wednesdays, Fridays, 2:00 PM - 3:00 PM", 30,
                       <<"john@mergington.edu", "olivia@mergington.edu">>)
         [] n = "Soccer Team" ->
              Activity("Join the school soccer team for practice and matches",
                       "Mondays and Thursdays, 4:00 PM - 6:00 PM", 20,
                       <<"alex@mergington.edu", "lisa@mergington.edu">>)
         [] n = "Basketball Club" ->
              Activity("Pickup games and skill development for basketball players",
                       "Tuesdays and Fridays, 4:15 PM - 6:00 PM", 15,
                       <<"matt@mergington.edu", "nina@mergington.edu">>)
         [] n = "Art Club" ->
              Activity("Explore drawing, painting, and mixed media",
                       "Wednesdays, 3:30 PM - 5:00 PM", 20,
                       <<"ava@mergington.edu", "lucas@mergington.edu">>)
         [] n = "Drama Club" ->
              Activity("Acting, stagecraft, and school productions",
                       "Thursdays, 4:00 PM - 6:00 PM", 25,
                       <<"mia@mergington.edu", "ethan@mergington.edu">>)
         [] n = "Debate Team" ->
              Activity("Competitive debate and public speaking practice",
                       "Mondays, 4:30 PM - 6:00 PM", 18,
                       <<"oliver@mergington.edu", "charlotte@mergington.edu">>)
         [] OTHER ->
              Activity("Hands-on experiments, projects, and science fairs",
                       "Fridays, 3:30 PM - 4:30 PM", 25,
                       <<"liam@mergington.edu", "amelia@mergington.edu">>)]

(***************************************************************************)
(* The inputs the requests are drawn from.  Two of the names are keys of   *)
(* the registry, one differs from a key only in case, one is unknown.  Two *)
(* of the emails are seeded participants, two are new.                     *)
(***************************************************************************)
Names == {"Chess Club", "Programming Class", "chess club", "Nonexistent Activity"}

Emails == {"michael@mergington.edu", "emma@mergington.edu",
           "test@mergington.edu", "integration_test@mergington.edu"}

(***************************************************************************)
(* Python's list operations as the handlers use them.                      *)
(***************************************************************************)
\* `x in lst`
Contains(lst, x) == \E i \in 1..Len(lst) : lst[i] = x

(***************************************************************************)
(* The statements of signup_for_activity.                                  *)
(***************************************************************************)
\* line 95: `activity_name not in activities`, negated
ActivityExists(acts, activity_name) == activity_name \in DOMAIN acts

\* line 103: `email in activity["participants"]`
AlreadySignedUp_Never(acts, activity_name, email) == FALSE

AlreadySignedUp(acts, activity_name, email) ==
    Contains(acts[activity_name].participants, email)

\* line 106: activity["participants"].append(email)
AppendParticipant_Front(acts, activity_name, email) ==
    [acts EXCEPT ![activity_name].participants = <<email>> \o @]

AppendParticipant_Shared(acts, activity_name, email) ==
    [n \in DOMAIN acts |-> [acts[n] EXCEPT !.participants = Append(@, email)]]

AppendParticipant_IfAbsent(acts, activity_name, email) ==
    IF Contains(acts[activity_name].participants, email) THEN acts
    ELSE [acts EXCEPT ![activity_name].participants = Append(@, email)]

AppendParticipant(acts, activity_name, email) ==
    [acts EXCEPT ![activity_name].participants = Append(@, email)]

\* line 96
ActivityNotFound == [status |-> 404, body |-> [detail |-> "Activity not found"]]

\* line 104
AlreadySignedUpError ==
    [status |-> 400, body |-> [detail |-> "Student already signed up for this activity"]]

\* line 107
SignedUp(activity_name, email) ==
    [status |-> 200,
     body |-> [message |-> "Signed up " \o email \o " for " \o activity_name]]

\* The router's answer to a request no route of app.py matches.
NoRoute == [status |-> 404, body |-> [detail |-> "Not Found"]]

(***************************************************************************)
(* signup_for_activity as a whole: the registry and the response it leaves.*)
(***************************************************************************)
Signup_CreatesActivity(acts, activity_name, email) ==
    IF ~ActivityExists(acts, activity_name)
    THEN [acts |-> [n \in DOMAIN acts \cup {activity_name} |->
                      IF n \in DOMAIN acts THEN acts[n]
                      ELSE Activity("", "", 0, <<email>>)],
          response |-> SignedUp(activity_name, email)]
    ELSE IF AlreadySignedUp(acts, activity_name, email)
    THEN [acts |-> acts, response |-> AlreadySignedUpError]
    ELSE [acts |-> AppendParticipant(acts, activity_name, email),
          response |-> SignedUp(activity_name, email)]

Signup_ChecksCapacity(acts, activity_name, email) ==
    IF ~ActivityExists(acts, activity_name)
    THEN [acts |-> acts, response |-> ActivityNotFound]
    ELSE IF AlreadySignedUp(acts, activity_name, email)
    THEN [acts |-> acts, response |-> AlreadySignedUpError]
    ELSE IF Len(acts[activity_name].participants) >= acts[activity_name].max_participants
    THEN [acts |-> acts,
          response |-> [status |-> 400, body |-> [detail |-> "Activity is full"]]]
    ELSE [acts |-> AppendParticipant(acts, activity_name, email),
          response |-> SignedUp(activity_name, email)]

Signup(acts, activity_name, email) ==
    IF ~ActivityExists(acts, activity_name)
    THEN [acts |-> acts, response |-> ActivityNotFound]
    ELSE IF AlreadySignedUp(acts, activity_name, email)
    THEN [acts |-> acts, response |-> AlreadySignedUpError]
    ELSE [acts |-> AppendParticipant(acts, activity_name, email),
          response |-> SignedUp(activity_name, email)]

(***************************************************************************)
(* Requests.                                                               *)
(***************************************************************************)
Request(op, activity_name, email) ==
    [op |-> op, activity_name |-> activity_name, email |-> email]

NoRequest == Request("none", "", "")
NoResponse == [status |-> 0, body |-> [detail |-> ""]]

\* SpecConc: the worker threads of the server's thread pool.
NumThreads == 2

Threads == 1..NumThreads

Init ==
    /\ activities = SeedActivities
    /\ request = NoRequest
    /\ response = NoResponse
    /\ before = SeedActivities
    /\ pc = [t \in Threads |-> "idle"]
    /\ req = [t \in Threads |-> NoRequest]
    /\ resp = [t \in Threads |-> NoResponse]
    /\ raced = {}

\* GET /
root ==
    /\ request' = Request("root", "", "")
    /\ response' = [status |-> 307, body |-> [location |-> "/static/index.html"]]
    /\ before' = activities
    /\ UNCHANGED <<activities, concVars>>

\* GET /activities
get_activities ==
    /\ request' = Request("get_activities", "", "")
    /\ response' = [status |-> 200, body |-> activities]
    /\ before' = activities
    /\ UNCHANGED <<activities, concVars>>

\* POST /activities/{activity_name}/signup?email={email}
signup_for_activity(activity_name, email) ==
    LET r == Signup(activities, activity_name, email) IN
    /\ request' = Request("signup", activity_name, email)
    /\ activities' = r.acts
    /\ response' = r.response
    /\ before' = activities
    /\ UNCHANGED concVars

\* DELETE /activities/{activity_name}/unregister?email={email}: app.py
\* registers no route for it.
unregister(activity_name, email) ==
    /\ request' = Request("unregister", activity_name, email)
    /\ response' = NoRoute
    /\ before' = activities
    /\ UNCHANGED <<activities, concVars>>

Next ==
    \/ root
    \/ get_activities
    \/ \E n \in Names, e \in Emails : signup_for_activity(n, e)
    \/ \E n \in Names, e \in Emails : unregister(n, e)

Spec == Init /\ [][Next]_vars

(***************************************************************************)
(* SpecCap: one client enrols the students of a roll into Chess Club, in   *)
(* the roll's order, and may repeat any request it has made or ask for an  *)
(* unknown activity.                                                       *)
(***************************************************************************)
NewStudents ==
    <<"student01@mergington.edu", "student02@mergington.edu",
      "student03@mergington.edu", "student04@mergington.edu",
      "student05@mergington.edu", "student06@mergington.edu",
      "student07@mergington.edu", "student08@mergington.edu",
      "student09@mergington.edu", "student10@mergington.edu",
      "student11@mergington.edu", "student12@mergington.edu",
      "student13@mergington.edu", "student14@mergington.edu">>

\* How many students of the roll the client enrols.
CapStudents == 11

CapNames == {"Chess Club", "Nonexistent Activity"}

Enrolled == Len(activities["Chess Club"].participants)
              - Len(SeedActivities["Chess Club"].participants)

CapEmails ==
    {"michael@mergington.edu"}
      \cup {NewStudents[i] : i \in 1..(IF Enrolled < CapStudents THEN Enrolled + 1
                                       ELSE CapStudents)}

NextCap ==
    \/ get_activities
    \/ \E n \in CapNames, e \in CapEmails : signup_for_activity(n, e)

SpecCap == Init /\ [][NextCap]_vars

(***************************************************************************)
(* SpecConc: FastAPI runs a `def` handler in a worker thread, so several   *)
(* calls of signup_for_activity run at once, and a thread switch can fall  *)
(* between any two of its statements.                                      *)
(***************************************************************************)
ConcNames == {"Chess Club", "Nonexistent Activity"}

ConcEmails == {"michael@mergington.edu", "test@mergington.edu",
               "integration_test@mergington.edu"}

\* A thread takes a request and enters the handler.
Receive(t, activity_name, email) ==
    /\ pc[t] = "idle"
    /\ pc' = [pc EXCEPT ![t] = "line95"]
    /\ req' = [req EXCEPT ![t] = Request("signup", activity_name, email)]
    /\ resp' = [resp EXCEPT ![t] = NoResponse]
    /\ raced' = {p \in raced : t \notin p}
    /\ UNCHANGED seqVars

\* lines 95-99: validate that the activity exists, and get it
Line95(t) ==
    /\ pc[t] = "line95"
    /\ IF ActivityExists(activities, req[t].activity_name)
       THEN /\ pc' = [pc EXCEPT ![t] = "line103"]
            /\ resp' = resp
       ELSE /\ pc' = [pc EXCEPT ![t] = "idle"]
            /\ resp' = [resp EXCEPT ![t] = ActivityNotFound]
    /\ UNCHANGED <<seqVars, req, raced>>

\* lines 103-104: validate that the student is not already signed up
Line103(t) ==
    /\ pc[t] = "line103"
    /\ IF AlreadySignedUp(activities, req[t].activity_name, req[t].email)
       THEN /\ pc' = [pc EXCEPT ![t] = "idle"]
            /\ resp' = [resp EXCEPT ![t] = AlreadySignedUpError]
            /\ raced' = raced
       ELSE /\ pc' = [pc EXCEPT ![t] = "line106"]
            /\ resp' = resp
            /\ raced' = raced \cup {{t, u} : u \in {v \in Threads \ {t} :
                                        pc[v] = "line106" /\ req[v] = req[t]}}
    /\ UNCHANGED <<seqVars, req>>

\* lines 106-107: append and return
Line106(t) ==
    /\ pc[t] = "line106"
    /\ activities' = AppendParticipant(activities, req[t].activity_name, req[t].email)
    /\ resp' = [resp EXCEPT ![t] = SignedUp(req[t].activity_name, req[t].email)]
    /\ pc' = [pc EXCEPT ![t] = "idle"]
    /\ UNCHANGED <<request, response, before, req, raced>>

NextConc ==
    \/ \E t \in Threads, n \in ConcNames, e \in ConcEmails : Receive(t, n, e)
    \/ \E t \in Threads : Line95(t)
    \/ \E t \in Threads : Line103(t)
    \/ \E t \in Threads : Line106(t)

SpecConc == Init /\ [][NextConc]_vars

(***************************************************************************)
(* The claims.  `request`, `response` and `before` describe the call made  *)
(* last: what was asked, what was answered, and the registry it found.     *)
(***************************************************************************)
Range(lst) == {lst[i] : i \in 1..Len(lst)}

\* How many entries of the list equal x.
RECURSIVE Count(_, _)
Count(lst, x) ==
    IF lst = <<>> THEN 0
    ELSE (IF Head(lst) = x THEN 1 ELSE 0) + Count(Tail(lst), x)

\* The list without its first entry equal to x (Python's lst.remove(x)).
RECURSIVE Without(_, _)
Without(lst, x) ==
    IF lst = <<>> THEN <<>>
    ELSE IF Head(lst) = x THEN Tail(lst)
    ELSE <<Head(lst)>> \o Without(Tail(lst), x)

Joined == request.op = "signup"
Left == request.op = "unregister"
A == request.activity_name
E == request.email

\* C1: in every state reachable from the seeded registry by ListAll, Join
\* and Leave calls, no activity's participants list holds an email twice.
C1_UniqueParticipants ==
    \A n \in DOMAIN activities :
        \A i, j \in 1..Len(activities[n].participants) :
            activities[n].participants[i] = activities[n].participants[j] => i = j

\* A Join of an email that an earlier Join added has just been refused.
C1_Witness ==
    /\ Joined
    /\ response.status = 400
    /\ A = "Chess Club"
    /\ E = "test@mergington.edu"
    /\ Len(activities["Chess Club"].participants) = 5

\* C2: Join(A, e) for a key A of the registry and an email e not among A's
\* participants answers 200 "Signed up {e} for {A}" and leaves A's
\* participants equal to the previous sequence with e appended last; from
\* the seed, Chess Club becomes [michael, daniel, test].
C2_JoinAppends ==
    /\ (Joined /\ A \in DOMAIN before /\ E \notin Range(before[A].participants))
         => /\ response.status = 200
            /\ response.body = [message |-> "Signed up " \o E \o " for " \o A]
            /\ activities[A].participants = before[A].participants \o <<E>>
    /\ (Joined /\ before = SeedActivities /\ A = "Chess Club"
               /\ E = "test@mergington.edu")
         => activities["Chess Club"].participants =
              <<"michael@mergington.edu", "daniel@mergington.edu",
                "test@mergington.edu">>

C2_Witness ==
    /\ Joined
    /\ response.status = 200
    /\ before["Chess Club"].participants =
         <<"michael@mergington.edu", "daniel@mergington.edu">>
    /\ activities["Chess Club"].participants =
         <<"michael@mergington.edu", "daniel@mergington.edu", "test@mergington.edu">>

\* C3: Join(A, e) for a key A and an email e already among A's participants,
\* seeded or joined earlier, answers 400 "Student already signed up for this
\* activity" and leaves the registry as it was; a successful Join(A, e)
\* followed at once by Join(A, e) has the second one answered 400.
C3_ConflictInv ==
    (Joined /\ A \in DOMAIN before /\ E \in Range(before[A].participants))
      => /\ response.status = 400
         /\ response.body = [detail |-> "Student already signed up for this activity"]
         /\ activities = before

C3_JoinTwice ==
    (/\ Joined /\ response.status = 200
     /\ request'.op = "signup" /\ request' = request)
      => /\ response'.status = 400
         /\ response'.body = [detail |-> "Student already signed up for this activity"]
         /\ activities' = activities

C3_Conflict == [](C3_ConflictInv) /\ [][C3_JoinTwice]_vars

\* The second of two Joins of a new email has just been refused.
C3_Witness ==
    /\ Joined
    /\ response.status = 400
    /\ E = "integration_test@mergington.edu"
    /\ A = "Programming Class"
    /\ activities = before

\* C4: Join with a name that is not a key of the registry (exact match,
\* case-sensitive) answers 404 "Activity not found", adds no key and changes
\* no activity's record.
C4_NotFound ==
    (Joined /\ A \notin DOMAIN before)
      => /\ response.status = 404
         /\ response.body = [detail |-> "Activity not found"]
         /\ DOMAIN activities = DOMAIN before
         /\ activities = before

\* A Join with a name that differs from a key only in case was refused.
C4_Witness ==
    /\ Joined
    /\ A = "chess club"
    /\ response.status = 404
    /\ activities = before

\* C5: Leave(A, e) for a key A and an email e among A's participants answers
\* 200 "Unregistered {e} from {A}" and leaves A's participants equal to the
\* previous sequence with the one entry e removed.
C5_LeaveRemoves ==
    (Left /\ A \in DOMAIN before /\ E \in Range(before[A].participants))
      => /\ response.status = 200
         /\ response.body = [message |-> "Unregistered " \o E \o " from " \o A]
         /\ activities[A].participants = Without(before[A].participants, E)

\* C6: Leave(A, e) for a key A and an email e not among A's participants
\* answers 400 "Student is not registered for this activity" and leaves the
\* registry as it was.
C6_NotRegistered ==
    (Left /\ A \in DOMAIN before /\ E \notin Range(before[A].participants))
      => /\ response.status = 400
         /\ response.body = [detail |-> "Student is not registered for this activity"]
         /\ activities = before

\* C7: a successful Join(A, e) followed by Leave(A, e): the Leave succeeds
\* too, and A's participants are again what they were before the Join.
C7_JoinThenLeave ==
    [][(/\ Joined /\ response.status = 200
        /\ request'.op = "unregister"
        /\ request'.activity_name = A /\ request'.email = E)
         => /\ response'.status = 200
            /\ activities'[A].participants = before[A].participants]_vars

\* C8: a Join or Leave on A, answered 200 or not, leaves every other
\* activity's record, A's description, schedule and max_participants, and
\* the set of activity names as they were; a Join answered 200 makes A's
\* participants one longer.
C8_Frame ==
    (Joined \/ Left)
      => /\ DOMAIN activities = DOMAIN before
         /\ \A n \in DOMAIN before :
              /\ n # A => activities[n] = before[n]
              /\ activities[n].description = before[n].description
              /\ activities[n].schedule = before[n].schedule
              /\ activities[n].max_participants = before[n].max_participants
         /\ (Joined /\ response.status = 200)
              => Len(activities[A].participants) = Len(before[A].participants) + 1

\* A Join has just changed Programming Class after Chess Club had changed.
C8_Witness ==
    /\ Joined
    /\ response.status = 200
    /\ A = "Programming Class"
    /\ activities[A] # before[A]
    /\ activities["Chess Club"] # SeedActivities["Chess Club"]

\* C9: Join checks no capacity: for a key A that already has
\* max_participants participants or more and an email e not among them,
\* Join(A, e) answers 200 and appends e.
C9_NoCapacityCheck ==
    (/\ Joined /\ A \in DOMAIN before
     /\ E \notin Range(before[A].participants)
     /\ Len(before[A].participants) >= before[A].max_participants)
      => /\ response.status = 200
         /\ activities[A].participants = before[A].participants \o <<E>>

\* Joins alone have taken Chess Club past its max_participants.
C9_Witness ==
    /\ Joined
    /\ response.status = 200
    /\ Len(before["Chess Club"].participants) >= before["Chess Club"].max_participants
    /\ Len(activities["Chess Club"].participants)
         > activities["Chess Club"].max_participants

\* C10: two Join(A, e) calls that both passed the membership check before
\* either appended both answer 200, and e is then in A's participants at
\* least twice.
C10_RaceDuplicates ==
    \A t, u \in Threads :
        (/\ t # u /\ {t, u} \in raced
         /\ pc[t] = "idle" /\ pc[u] = "idle")
          => /\ req[t] = req[u]
             /\ resp[t].status = 200 /\ resp[u].status = 200
             /\ resp[t].body = [message |-> "Signed up " \o req[t].email
                                              \o " for " \o req[t].activity_name]
             /\ resp[u].body = resp[t].body
             /\ Count(activities[req[t].activity_name].participants, req[t].email) >= 2

\* Both racing calls have returned and the email is in the list twice.
C10_Witness ==
    \E t, u \in Threads :
        /\ t # u /\ {t, u} \in raced
        /\ pc[t] = "idle" /\ pc[u] = "idle"
        /\ resp[t].status = 200 /\ resp[u].status = 200
        /\ ~C1_UniqueParticipants

====
